---------------------------- MODULE Spec2Model ----------------------------
(***************************************************************************)
(* A model of elektron (src/src/main.rs): an axum service with the routes  *)
(* "/", "/prices" and "/fonts/:filename".                                  *)
(*                                                                         *)
(* Text is modelled as a sequence of one-character strings, a file-system  *)
(* path as a sequence of components (each a text), a file's contents as a  *)
(* sequence of small integers (bytes).                                     *)
(***************************************************************************)
EXTENDS Integers, Sequences, FiniteSets, TLC

VARIABLES
    server,   \* "starting" | "running" | "aborted": main()'s bind and serve
    fs,       \* the file system: absolute path -> node
    req       \* the in-flight requests: slot -> the handler's position and locals

vars == <<server, fs, req>>

(***************************************************************************)
(* Bounds of the model.                                                    *)
(***************************************************************************)
\* request slots handled concurrently by the runtime
NReq == 2
\* font requests racing with file-system changes of other processes
NRaceReq == 1
\* symbolic links followed by one path resolution before it gives up
MaxSymlinks == 3

(***************************************************************************)
(* Text helpers: str::contains, str::ends_with, str::starts_with.          *)
(***************************************************************************)
Contains(s, sub) ==
    \E i \in 1..(Len(s) - Len(sub) + 1) : SubSeq(s, i, i + Len(sub) - 1) = sub

EndsWith(s, suf) ==
    /\ Len(s) >= Len(suf)
    /\ SubSeq(s, Len(s) - Len(suf) + 1, Len(s)) = suf

StartsWith(s, pre) ==
    /\ Len(s) >= Len(pre)
    /\ SubSeq(s, 1, Len(pre)) = pre

DotDot == <<".", ".">>
Slash == <<"/">>
Backslash == <<"\\">>
ExtWoff2 == <<".", "w", "o", "f", "f", "2">>
ExtWoff == <<".", "w", "o", "f", "f">>
ExtTtf == <<".", "t", "t", "f">>

(***************************************************************************)
(* The file system.  A node is a regular file with its bytes, a directory, *)
(* a symbolic link with an absolute target, or nothing.                    *)
(***************************************************************************)
NoNode == [kind |-> "none", data |-> <<>>, target |-> <<>>]
DirNode == [kind |-> "dir", data |-> <<>>, target |-> <<>>]
FileNode(d) == [kind |-> "file", data |-> d, target |-> <<>>]
LinkNode(t) == [kind |-> "link", data |-> <<>>, target |-> t]

Lookup(f, p) ==
    IF p = <<>> THEN DirNode
    ELSE IF p \in DOMAIN f THEN f[p] ELSE NoNode

\* the process's working directory, and the font directory "src/font" of
\* serve_font, relative to it
Cwd == << <<"a", "p", "p">> >>
SrcName == <<"s", "r", "c">>
FontName == <<"f", "o", "n", "t">>
font_dir == [abs |-> FALSE, comps |-> <<SrcName, FontName>>]

\* the components of a text path: split at "/", empty components dropped
RECURSIVE SplitFrom(_, _)
SplitFrom(s, cur) ==
    IF s = <<>> THEN (IF cur = <<>> THEN <<>> ELSE <<cur>>)
    ELSE IF Head(s) = "/"
         THEN (IF cur = <<>> THEN <<>> ELSE <<cur>>) \o SplitFrom(Tail(s), <<>>)
         ELSE SplitFrom(Tail(s), Append(cur, Head(s)))

Components(s) == SplitFrom(s, <<>>)

\* Path::join: an absolute argument replaces the base
Join(base, name) ==
    IF name # <<>> /\ Head(name) = "/"
    THEN [abs |-> TRUE, comps |-> Components(name)]
    ELSE [abs |-> base.abs, comps |-> base.comps \o Components(name)]

Parent(p) == IF p = <<>> THEN <<>> ELSE SubSeq(p, 1, Len(p) - 1)

\* realpath: every component must exist, links are followed, "." and ".."
\* are resolved against the directories actually reached
RECURSIVE Resolve(_, _, _, _)
Resolve(f, at, rest, fuel) ==
    IF rest = <<>> THEN [ok |-> TRUE, path |-> at]
    ELSE LET c == Head(rest)
             more == Tail(rest)
             cand == Append(at, c)
             node == Lookup(f, cand)
         IN  IF Lookup(f, at).kind # "dir" THEN [ok |-> FALSE, path |-> <<>>]
             ELSE IF c = <<".">> THEN Resolve(f, at, more, fuel)
             ELSE IF c = DotDot THEN Resolve(f, Parent(at), more, fuel)
             ELSE IF node.kind = "none" THEN [ok |-> FALSE, path |-> <<>>]
             ELSE IF node.kind = "link"
                  THEN IF fuel = 0 THEN [ok |-> FALSE, path |-> <<>>]
                       ELSE Resolve(f, <<>>, node.target \o more, fuel - 1)
             ELSE Resolve(f, cand, more, fuel)

\* Path::canonicalize
Canonicalize(f, p) ==
    Resolve(f, IF p.abs THEN <<>> ELSE Cwd, p.comps, MaxSymlinks)

\* Path::exists: metadata() follows links and succeeds when the path resolves
Exists(f, p) == Canonicalize(f, p).ok

\* tokio::fs::read: opens through links; a directory cannot be read
ReadFile(f, p) ==
    LET c == Canonicalize(f, p)
    IN  IF c.ok /\ Lookup(f, c.path).kind = "file"
        THEN [ok |-> TRUE, data |-> Lookup(f, c.path).data]
        ELSE [ok |-> FALSE, data |-> <<>>]

\* the prefix check against the parent of the base directory
PathStartsWith_Parent(p, base) ==
    /\ Len(p) >= Len(Parent(base))
    /\ SubSeq(p, 1, Len(Parent(base))) = Parent(base)

\* Path::starts_with: whole components, not characters
PathStartsWith(p, base) ==
    /\ Len(p) >= Len(base)
    /\ SubSeq(p, 1, Len(base)) = base

(***************************************************************************)
(* serve_font, its pure parts.                                             *)
(***************************************************************************)
\* the check of line 33 with the backslash test left out
IsTraversal_NoBackslash(filename) ==
    \/ Contains(filename, DotDot)
    \/ Contains(filename, Slash)

\* line 33
IsTraversal(filename) ==
    \/ Contains(filename, DotDot)
    \/ Contains(filename, Slash)
    \/ Contains(filename, Backslash)

\* line 38
HasFontExtension(filename) ==
    \/ EndsWith(filename, ExtWoff2)
    \/ EndsWith(filename, ExtWoff)
    \/ EndsWith(filename, ExtTtf)

ValidName(filename) == ~IsTraversal(filename) /\ HasFontExtension(filename)

\* lines 55-63 with the .woff test first and by substring
mime_type_WoffFirst(filename) ==
    IF Contains(filename, ExtWoff) THEN "font/woff"
    ELSE IF EndsWith(filename, ExtWoff2) THEN "font/woff2"
    ELSE IF EndsWith(filename, ExtTtf) THEN "font/ttf"
    ELSE "application/octet-stream"

\* lines 55-63
mime_type(filename) ==
    IF EndsWith(filename, ExtWoff2) THEN "font/woff2"
    ELSE IF EndsWith(filename, ExtWoff) THEN "font/woff"
    ELSE IF EndsWith(filename, ExtTtf) THEN "font/ttf"
    ELSE "application/octet-stream"

font_path(filename) == Join(font_dir, filename)


(***************************************************************************)
(* f64 (PriceData.nok_kwh, ChartDataPoint.price): an IEEE 754 binary64     *)
(* value is  (-1)^neg * m * 2^e  with  m < 2^53  and  -1074 <= e <= 971,   *)
(* normal when m >= 2^52, subnormal or zero when e = -1074.  The 53-bit m  *)
(* is kept as limbs of 18 bits, least significant first, so that every     *)
(* intermediate result stays inside the integers of the model checker.     *)
(***************************************************************************)
LimbBits == 18
LimbBase == 262144
MantBits == 53
MinExp == -1074
MaxExp == 971

RECURSIVE Pow2(_)
Pow2(n) == IF n = 0 THEN 1 ELSE 2 * Pow2(n - 1)

RECURSIVE BigTrim(_)
BigTrim(x) ==
    IF x # <<>> /\ x[Len(x)] = 0 THEN BigTrim(SubSeq(x, 1, Len(x) - 1)) ELSE x

RECURSIVE BigMulCarry(_, _, _)
BigMulCarry(x, k, carry) ==
    IF x = <<>>
    THEN (IF carry = 0 THEN <<>>
          ELSE <<carry % LimbBase>> \o BigMulCarry(<<>>, k, carry \div LimbBase))
    ELSE LET t == x[1] * k + carry
         IN  <<t % LimbBase>> \o BigMulCarry(Tail(x), k, t \div LimbBase)

\* x * k for a small k
BigMulSmall(x, k) == BigTrim(BigMulCarry(x, k, 0))

\* x + 1
BigInc(x) == BigTrim(BigMulCarry(x, 1, 1))

\* <<quotient, remainder>> of x by a small k, from the most significant limb down
RECURSIVE BigDivRem(_, _, _)
BigDivRem(x, k, rem) ==
    IF x = <<>> THEN [q |-> <<>>, r |-> rem]
    ELSE LET t == rem * LimbBase + x[Len(x)]
             low == BigDivRem(SubSeq(x, 1, Len(x) - 1), k, t % k)
         IN  [q |-> Append(low.q, t \div k), r |-> low.r]

BigDivSmall(x, k) ==
    LET d == BigDivRem(x, k, 0) IN [q |-> BigTrim(d.q), r |-> d.r]

RECURSIVE BitLenSmall(_)
BitLenSmall(n) == IF n = 0 THEN 0 ELSE 1 + BitLenSmall(n \div 2)

BitLen(x) ==
    LET t == BigTrim(x)
    IN  IF t = <<>> THEN 0 ELSE LimbBits * (Len(t) - 1) + BitLenSmall(t[Len(t)])

BigIsOdd(x) == x # <<>> /\ x[1] % 2 = 1

\* 2^52 and 2^53
BigTwo52 == <<0, 0, 65536>>
BigTwo53 == <<0, 0, 131072>>

F64(neg, m, e) == [cls |-> "finite", neg |-> neg, m |-> BigTrim(m), e |-> e]
F64Inf(neg) == [cls |-> "inf", neg |-> neg, m |-> <<>>, e |-> 0]

\* 100.0 = 25 * 2^2, exactly
HundredMant == 25
HundredExp == 2

\* round to nearest, ties to even, of  p * 2^ex  (p any natural)
F64Round(neg, p, ex) ==
    LET len == BitLen(p)
        want == IF ex + len - MantBits > MinExp THEN ex + len - MantBits ELSE MinExp
    IN  IF want <= ex
        THEN F64(neg, BigMulSmall(p, Pow2(ex - want)), want)
        ELSE LET k == want - ex
                 d == BigDivSmall(p, Pow2(k))
                 half == Pow2(k - 1)
                 up == d.r > half \/ (d.r = half /\ BigIsOdd(d.q))
                 q == IF up THEN BigInc(d.q) ELSE d.q
                 m == IF q = BigTwo53 THEN BigTwo52 ELSE q
                 e == IF q = BigTwo53 THEN want + 1 ELSE want
             IN  IF e > MaxExp THEN F64Inf(neg) ELSE F64(neg, m, e)

\* line 109 with the product clamped at zero
F64Mul100_Clamped(x) ==
    IF x.cls # "finite" THEN x
    ELSE IF x.neg THEN F64(FALSE, <<>>, MinExp)
    ELSE F64Round(x.neg, BigMulSmall(x.m, HundredMant), x.e + HundredExp)

\* line 109: item.nok_kwh * 100.0
F64Mul100(x) ==
    IF x.cls # "finite" THEN x
    ELSE F64Round(x.neg, BigMulSmall(x.m, HundredMant), x.e + HundredExp)

(***************************************************************************)
(* DateTime::parse_from_rfc3339 and Timelike::hour (lines 101-102).        *)
(* The text YYYY-MM-DDTHH:MM:SS[.fff](Z|+HH:MM|-HH:MM) is scanned left to  *)
(* right; the fields are range-checked; the local time is converted to the *)
(* UTC instant the DateTime stores together with its offset.               *)
(***************************************************************************)
Digits == <<"0", "1", "2", "3", "4", "5", "6", "7", "8", "9">>

IsDigit(c) == \E i \in 1..Len(Digits) : Digits[i] = c

DigitVal(c) == (CHOOSE i \in 1..Len(Digits) : Digits[i] = c) - 1

\* the number written by the k digits of s from position i, or -1
RECURSIVE Num(_, _, _)
Num(s, i, k) ==
    IF k = 0 THEN 0
    ELSE IF i + k - 1 > Len(s) \/ ~IsDigit(s[i + k - 1]) THEN -1
    ELSE LET hi == Num(s, i, k - 1)
         IN  IF hi < 0 THEN -1 ELSE 10 * hi + DigitVal(s[i + k - 1])

CharAt(s, i) == IF i >= 1 /\ i <= Len(s) THEN s[i] ELSE ""

\* the first position at or after i that holds no digit
RECURSIVE SkipDigits(_, _)
SkipDigits(s, i) == IF IsDigit(CharAt(s, i)) THEN SkipDigits(s, i + 1) ELSE i

IsLeapYear(y) == (y % 4 = 0 /\ y % 100 # 0) \/ y % 400 = 0

DaysInMonth(y, m) ==
    IF m = 2 THEN (IF IsLeapYear(y) THEN 29 ELSE 28)
    ELSE IF m \in {4, 6, 9, 11} THEN 30 ELSE 31

SecondsPerDay == 86400
SecondsPerHour == 3600

NoDateTime == [ok |-> FALSE, utc_day |-> 0, utc_secs |-> 0, offset |-> 0]

\* U+2212 MINUS SIGN (code point 8722), one character of a text
MinusSign == "U+8722"

\* the offset in seconds written at position i, which must end the text;
\* the parser takes U+2212 for "-" as the sign
ParseOffset(s, i) ==
    IF CharAt(s, i) \in {"Z", "z"}
    THEN [ok |-> Len(s) = i, secs |-> 0]
    ELSE IF CharAt(s, i) \in {"+", "-", MinusSign}
    THEN LET hh == Num(s, i + 1, 2)
             mm == Num(s, i + 4, 2)
             secs == hh * SecondsPerHour + mm * 60
         IN  [ok |-> /\ hh >= 0
                     /\ CharAt(s, i + 3) = ":"
                     /\ mm >= 0 /\ mm <= 59
                     /\ Len(s) = i + 5
                     /\ secs < SecondsPerDay,
              secs |-> IF CharAt(s, i) \in {"-", MinusSign} THEN -secs ELSE secs]
    ELSE [ok |-> FALSE, secs |-> 0]

parse_from_rfc3339(s) ==
    LET year == Num(s, 1, 4)
        month == Num(s, 6, 2)
        day == Num(s, 9, 2)
        hour == Num(s, 12, 2)
        minute == Num(s, 15, 2)
        second == Num(s, 18, 2)
        afterFrac == IF CharAt(s, 20) = "." THEN SkipDigits(s, 21) ELSE 20
        off == ParseOffset(s, afterFrac)
        \* a leap second is kept as second 59 plus a full second of nanos
        local == hour * SecondsPerHour + minute * 60
                     + (IF second = 60 THEN 59 ELSE second)
        utc == local - off.secs
    IN  IF /\ year >= 0 /\ CharAt(s, 5) = "-"
           /\ month >= 1 /\ month <= 12 /\ CharAt(s, 8) = "-"
           /\ day >= 1 /\ day <= DaysInMonth(year, month)
           /\ CharAt(s, 11) \in {"T", "t", " "}
           /\ hour >= 0 /\ hour <= 23 /\ CharAt(s, 14) = ":"
           /\ minute >= 0 /\ minute <= 59 /\ CharAt(s, 17) = ":"
           /\ second >= 0 /\ second <= 60
           /\ (CharAt(s, 20) = "." => afterFrac > 21)
           /\ off.ok
        THEN [ok |-> TRUE,
              utc_day |-> utc \div SecondsPerDay,
              utc_secs |-> utc % SecondsPerDay,
              offset |-> off.secs]
        ELSE NoDateTime

\* the hour of the stored UTC instant, the offset left out
hour_of_Utc(dt) == dt.utc_secs \div SecondsPerHour

\* dt.hour(): the hour of the local time, that is the UTC instant shifted
\* back by the DateTime's own offset
hour_of(dt) == ((dt.utc_secs + dt.offset) % SecondsPerDay) \div SecondsPerHour

(***************************************************************************)
(* The upstream answer and serde's decoding of it into Vec<PriceData>.     *)
(* A JSON number is modelled by the f64 it parses to.                      *)
(***************************************************************************)
JNum(x) == [t |-> "num", num |-> x, str |-> <<>>]
JStr(s) == [t |-> "str", num |-> F64(FALSE, <<>>, MinExp), str |-> s]
JNull == [t |-> "null", num |-> F64(FALSE, <<>>, MinExp), str |-> <<>>]
JAbsent == [t |-> "absent", num |-> F64(FALSE, <<>>, MinExp), str |-> <<>>]

JObject(nok, eur, ts) == [NOK_per_kWh |-> nok, EUR_per_kWh |-> eur, time_start |-> ts]

\* a body is not JSON at all, a JSON value that is no array, or an array
BodyMalformed == [kind |-> "malformed", items |-> <<>>]
BodyOther == [kind |-> "other", items |-> <<>>]
BodyArray(items) == [kind |-> "array", items |-> items]
\* the connection fails while the body is read, and a body not read (yet)
BodyReadError == [kind |-> "read_error", items |-> <<>>]
BodyPending == [kind |-> "pending", items |-> <<>>]

TransportError == [kind |-> "transport_error", status |-> 0, body |-> BodyPending]
Answer(status, body) == [kind |-> "response", status |-> status, body |-> body]
\* what send() returns: the status, the body still to come
ResponseHead(status) == Answer(status, BodyPending)
NoAnswer == [kind |-> "none", status |-> 0, body |-> BodyPending]

\* the status test of line 87 as a comparison with 200 OK
is_success_Only200(status) == status = 200

\* StatusCode::is_success (line 87)
is_success(status) == status >= 200 /\ status <= 299

PriceData(o) ==
    [nok_kwh |-> o.NOK_per_kWh.num, eur_kwh |-> o.EUR_per_kWh.num,
     time_start |-> o.time_start.str]

DecodesItem(o) ==
    /\ o.NOK_per_kWh.t = "num"
    /\ o.EUR_per_kWh.t = "num"
    /\ o.time_start.t = "str"

RECURSIVE DecodeItems(_)
DecodeItems(items) ==
    IF items = <<>> THEN [ok |-> TRUE, data |-> <<>>]
    ELSE IF ~DecodesItem(Head(items)) THEN [ok |-> FALSE, data |-> <<>>]
    ELSE LET rest == DecodeItems(Tail(items))
         IN  IF rest.ok THEN [ok |-> TRUE, data |-> <<PriceData(Head(items))>> \o rest.data]
             ELSE rest

\* line 91: response.json::<Vec<PriceData>>()
DecodeBody(body) ==
    IF body.kind = "array" THEN DecodeItems(body.items)
    ELSE [ok |-> FALSE, data |-> <<>>]

\* lines 85-89: send().await? and the status test; Ok leaves the body to read
fetch_send(head) ==
    IF head.kind # "response"
    THEN [ok |-> FALSE, err |-> "error sending request"]
    ELSE IF ~is_success(head.status)
    THEN [ok |-> FALSE, err |-> "API request failed with status"]
    ELSE [ok |-> TRUE, err |-> ""]

\* lines 91-92: response.json().await?, Ok(data) or Err(message)
fetch_json(body) ==
    LET d == DecodeBody(body)
    IN  IF d.ok THEN [ok |-> TRUE, data |-> d.data, err |-> ""]
        ELSE [ok |-> FALSE, data |-> <<>>, err |-> "error decoding response body"]

(***************************************************************************)
(* prices, lines 98-116: the map from PriceData to ChartDataPoint.         *)
(***************************************************************************)
\* lines 101-105
hour(item) ==
    LET dt == parse_from_rfc3339(item.time_start)
    IN  IF dt.ok THEN hour_of(dt) ELSE 0

\* lines 107-114
ChartDataPoint(item) ==
    [hour |-> hour(item),
     price |-> F64Mul100(item.nok_kwh),
     time |-> item.time_start,
     price_nok |-> item.nok_kwh,
     price_eur |-> item.eur_kwh]

\* the map of lines 98-116 keeping one record per timestamp
RECURSIVE chart_Dedup(_)
chart_Dedup(data) ==
    IF data = <<>> THEN <<>>
    ELSE IF Len(data) >= 2 /\ data[1].time_start = data[2].time_start
         THEN chart_Dedup(Tail(data))
    ELSE <<ChartDataPoint(Head(data))>> \o chart_Dedup(Tail(data))

\* lines 98-116: into_iter().map(..).collect()
RECURSIVE chart(_)
chart(data) ==
    IF data = <<>> THEN <<>>
    ELSE <<ChartDataPoint(Head(data))>> \o chart(Tail(data))

(***************************************************************************)
(* The router of main(): "/", "/prices", "/fonts/:filename".  A parameter  *)
(* matches one non-empty path segment; the Path extractor percent-decodes  *)
(* it and rejects the request when the bytes are not UTF-8.  A path no     *)
(* route matches is answered 404 by the router's fallback; a route reached *)
(* with a method that get() does not take is answered 405.                 *)
(***************************************************************************)
HexDigits ==
    <<"0", "1", "2", "3", "4", "5", "6", "7", "8", "9",
      "A", "B", "C", "D", "E", "F", "a", "b", "c", "d", "e", "f">>

IsHex(c) == \E i \in 1..Len(HexDigits) : HexDigits[i] = c

HexVal(c) ==
    LET i == CHOOSE j \in 1..Len(HexDigits) : HexDigits[j] = c
    IN  IF i <= 16 THEN i - 1 ELSE i - 7

\* the characters U+0020 .. U+007E, in code order (the grave accent, which
\* a string of this language cannot hold, by its code point)
Printable ==
    <<
      " ", "!", "\"", "#", "$", "%", "&", "'", "(", ")", "*", "+",
      ",", "-", ".", "/", "0", "1", "2", "3", "4", "5", "6", "7",
      "8", "9", ":", ";", "<", "=", ">", "?", "@", "A", "B", "C",
      "D", "E", "F", "G", "H", "I", "J", "K", "L", "M", "N", "O",
      "P", "Q", "R", "S", "T", "U", "V", "W", "X", "Y", "Z", "[",
      "\\", "]", "^", "_", "U+96", "a", "b", "c", "d", "e", "f", "g",
      "h", "i", "j", "k", "l", "m", "n", "o", "p", "q", "r", "s",
      "t", "u", "v", "w", "x", "y", "z", "{", "|", "}", "~"
    >>

FirstPrintable == 32

\* a character of a text by its code point: itself when it is printable
\* ASCII, otherwise the element "U+<code point>" standing for it
CharOf(cp) ==
    IF cp >= FirstPrintable /\ cp < FirstPrintable + Len(Printable)
    THEN Printable[cp - FirstPrintable + 1]
    ELSE "U+" \o ToString(cp)

\* the byte of a character of the request line (printable ASCII)
CodeOf(c) ==
    (CHOOSE i \in 1..Len(Printable) : Printable[i] = c) + FirstPrintable - 1

\* percent_decode: "%XY" with two hex digits is the byte XY, anything else
\* is kept
RECURSIVE PercentDecodeBytes(_)
PercentDecodeBytes(s) ==
    IF s = <<>> THEN <<>>
    ELSE IF Head(s) = "%" /\ Len(s) >= 3 /\ IsHex(s[2]) /\ IsHex(s[3])
         THEN <<16 * HexVal(s[2]) + HexVal(s[3])>>
                  \o PercentDecodeBytes(SubSeq(s, 4, Len(s)))
         ELSE <<CodeOf(Head(s))>> \o PercentDecodeBytes(Tail(s))

IsCont(bytes, i) == Len(bytes) >= i /\ bytes[i] >= 128 /\ bytes[i] <= 191

\* the length of the UTF-8 sequence that starts bytes, 0 when there is none
Utf8Len(bytes) ==
    LET b == bytes[1]
    IN  IF b < 128 THEN 1
        ELSE IF b >= 194 /\ b <= 223 /\ IsCont(bytes, 2) THEN 2
        ELSE IF /\ b >= 224 /\ b <= 239
                /\ IsCont(bytes, 2) /\ IsCont(bytes, 3)
                /\ (b = 224 => bytes[2] >= 160)
                /\ (b = 237 => bytes[2] <= 159)
             THEN 3
        ELSE IF /\ b >= 240 /\ b <= 244
                /\ IsCont(bytes, 2) /\ IsCont(bytes, 3) /\ IsCont(bytes, 4)
                /\ (b = 240 => bytes[2] >= 144)
                /\ (b = 244 => bytes[2] <= 143)
             THEN 4
        ELSE 0

Utf8CodePoint(bytes, n) ==
    IF n = 1 THEN bytes[1]
    ELSE IF n = 2 THEN (bytes[1] - 192) * 64 + (bytes[2] - 128)
    ELSE IF n = 3
         THEN (bytes[1] - 224) * 4096 + (bytes[2] - 128) * 64 + (bytes[3] - 128)
    ELSE (bytes[1] - 240) * 262144 + (bytes[2] - 128) * 4096
             + (bytes[3] - 128) * 64 + (bytes[4] - 128)

\* decode_utf8: the text of the bytes, or an error
RECURSIVE Utf8Decode(_)
Utf8Decode(bytes) ==
    IF bytes = <<>> THEN [ok |-> TRUE, text |-> <<>>]
    ELSE LET n == Utf8Len(bytes)
         IN  IF n = 0 THEN [ok |-> FALSE, text |-> <<>>]
             ELSE LET rest == Utf8Decode(SubSeq(bytes, n + 1, Len(bytes)))
                  IN  IF ~rest.ok THEN rest
                      ELSE [ok |-> TRUE,
                            text |-> <<CharOf(Utf8CodePoint(bytes, n))>> \o rest.text]

\* the Path extractor's value of a matched segment
PercentDecode(s) == Utf8Decode(PercentDecodeBytes(s))

PathIndex == <<"/">>
PathPrices == <<"/", "p", "r", "i", "c", "e", "s">>
PrefixFonts == <<"/", "f", "o", "n", "t", "s", "/">>

Segment(path) == SubSeq(path, Len(PrefixFonts) + 1, Len(path))

\* Path(filename): Path<String> of line 31
Extract(segment) ==
    LET decoded == PercentDecode(segment)
    IN  IF decoded.ok THEN [handler |-> "serve_font", filename |-> decoded.text]
        ELSE [handler |-> "path_rejection", filename |-> <<>>]

\* the route table with a parameter that swallows the rest of the path
Route_Wildcard(path) ==
    IF path = PathIndex THEN [handler |-> "index", filename |-> <<>>]
    ELSE IF path = PathPrices THEN [handler |-> "prices", filename |-> <<>>]
    ELSE IF StartsWith(path, PrefixFonts) /\ Segment(path) # <<>>
         THEN Extract(Segment(path))
    ELSE [handler |-> "fallback", filename |-> <<>>]

Route(path) ==
    IF path = PathIndex THEN [handler |-> "index", filename |-> <<>>]
    ELSE IF path = PathPrices THEN [handler |-> "prices", filename |-> <<>>]
    ELSE IF /\ StartsWith(path, PrefixFonts)
            /\ Segment(path) # <<>>
            /\ ~Contains(Segment(path), Slash)
         THEN Extract(Segment(path))
    ELSE [handler |-> "fallback", filename |-> <<>>]

\* routing::get: the handler is called for GET and for HEAD
MethodAllowed(method) == method \in {"GET", "HEAD"}

(***************************************************************************)
(* A request: the handler's position (pc), its locals and its response.    *)
(***************************************************************************)
NoBody == [kind |-> "empty", bytes |-> <<>>, points |-> <<>>, text |-> <<>>]
BytesBody(d) == [kind |-> "bytes", bytes |-> d, points |-> <<>>, text |-> <<>>]

Idle ==
    [pc |-> "idle", method |-> "", path |-> <<>>, filename |-> <<>>,
     canonical_font_dir |-> <<>>, canonical_font_path |-> <<>>,
     upstream |-> NoAnswer,
     status |-> 0, content_type |-> "", cache_control |-> "", body |-> NoBody,
     fsops |-> <<>>]

\* Err(StatusCode): the status alone, no headers of the handler, no body
ErrStatus(q, code) == [q EXCEPT !.pc = "done", !.status = code]

(***************************************************************************)
(* main(): bind 0.0.0.0:3000, then serve.  A failed bind panics (unwrap).  *)
(***************************************************************************)
Bind ==
    /\ server = "starting"
    /\ \E ok \in BOOLEAN : server' = IF ok THEN "running" ELSE "aborted"
    /\ UNCHANGED <<fs, req>>

\* the extractor's rejection: 400 with its message as text
PathRejection(q) ==
    [q EXCEPT !.pc = "done", !.status = 400,
              !.content_type = "text/plain; charset=utf-8",
              !.body = [kind |-> "text", bytes |-> <<>>, points |-> <<>>,
                        text |-> <<"Invalid URL: ", "Invalid UTF-8 in filename">>]]

\* lines 556-559: the request as the router hands it on, or answers it
Accept(method, path) ==
    LET to == Route(path)
        q == [Idle EXCEPT !.method = method, !.path = path]
    IN  IF to.handler = "fallback" THEN ErrStatus(q, 404)
        ELSE IF ~MethodAllowed(method) THEN ErrStatus(q, 405)
        ELSE IF to.handler = "path_rejection" THEN PathRejection(q)
        ELSE [q EXCEPT !.pc = to.handler, !.filename = to.filename]

\* the router takes a request off a connection and calls the handler
Dispatch(r, method, path) ==
    /\ server = "running"
    /\ req[r].pc = "idle"
    /\ req' = [req EXCEPT ![r] = Accept(method, path)]
    /\ UNCHANGED <<server, fs>>

\* the response is written to the connection and the task ends
Respond(r) ==
    /\ req[r].pc = "done"
    /\ req' = [req EXCEPT ![r] = Idle]
    /\ UNCHANGED <<server, fs>>

(***************************************************************************)
(* serve_font, one step per place where the handler can observe the file   *)
(* system; q is the request, f the file system at that moment.             *)
(***************************************************************************)
\* lines 33-40
StepValidate(q) ==
    IF IsTraversal(q.filename) THEN ErrStatus(q, 400)
    ELSE IF ~HasFontExtension(q.filename) THEN ErrStatus(q, 400)
    ELSE [q EXCEPT !.pc = "canon_dir"]

\* line 46
StepCanonDir(q, f) ==
    LET c == Canonicalize(f, font_dir)
        q1 == [q EXCEPT !.fsops = Append(@, "canonicalize_dir")]
    IN  IF ~c.ok THEN ErrStatus(q1, 500)
        ELSE [q1 EXCEPT !.pc = "canon_path", !.canonical_font_dir = c.path]

\* line 47 with the failure mapped like that of line 46
StepCanonPath_500(q, f) ==
    LET c == Canonicalize(f, font_path(q.filename))
        q1 == [q EXCEPT !.fsops = Append(@, "canonicalize_path")]
    IN  IF ~c.ok THEN ErrStatus(q1, 500)
        ELSE [q1 EXCEPT !.pc = "prefix_check", !.canonical_font_path = c.path]

\* line 47
StepCanonPath(q, f) ==
    LET c == Canonicalize(f, font_path(q.filename))
        q1 == [q EXCEPT !.fsops = Append(@, "canonicalize_path")]
    IN  IF ~c.ok THEN ErrStatus(q1, 404)
        ELSE [q1 EXCEPT !.pc = "prefix_check", !.canonical_font_path = c.path]

\* lines 49-51
StepPrefixCheck(q) ==
    IF ~PathStartsWith(q.canonical_font_path, q.canonical_font_dir)
    THEN ErrStatus(q, 403)
    ELSE [q EXCEPT !.pc = "exists"]

\* lines 53, 70-72
StepExists(q, f) ==
    LET q1 == [q EXCEPT !.fsops = Append(@, "exists")]
    IN  IF Exists(f, font_path(q.filename)) THEN [q1 EXCEPT !.pc = "read"]
        ELSE ErrStatus(q1, 404)

\* lines 54-69
StepRead(q, f) ==
    LET font_data == ReadFile(f, font_path(q.filename))
        q1 == [q EXCEPT !.fsops = Append(@, "read")]
    IN  IF ~font_data.ok THEN ErrStatus(q1, 500)
        ELSE [q1 EXCEPT !.pc = "done",
                        !.status = 200,
                        !.content_type = mime_type(q.filename),
                        !.cache_control = "public, max-age=31536000",
                        !.body = BytesBody(font_data.data)]

FontValidate(r) ==
    /\ req[r].pc = "serve_font"
    /\ req' = [req EXCEPT ![r] = StepValidate(@)]
    /\ UNCHANGED <<server, fs>>

FontCanonDir(r) ==
    /\ req[r].pc = "canon_dir"
    /\ req' = [req EXCEPT ![r] = StepCanonDir(@, fs)]
    /\ UNCHANGED <<server, fs>>

\* line 47 with the canonical path kept in one place for all requests
FontCanonPath_Shared(r) ==
    /\ req[r].pc = "canon_path"
    /\ LET c == Canonicalize(fs, font_path(req[r].filename))
       IN  req' = [s \in DOMAIN req |->
                     IF s = r THEN StepCanonPath(req[s], fs)
                     ELSE IF c.ok /\ req[s].pc \in {"canon_path", "prefix_check"}
                     THEN [req[s] EXCEPT !.canonical_font_path = c.path]
                     ELSE req[s]]
    /\ UNCHANGED <<server, fs>>

FontCanonPath(r) ==
    /\ req[r].pc = "canon_path"
    /\ req' = [req EXCEPT ![r] = StepCanonPath(@, fs)]
    /\ UNCHANGED <<server, fs>>

FontPrefixCheck(r) ==
    /\ req[r].pc = "prefix_check"
    /\ req' = [req EXCEPT ![r] = StepPrefixCheck(@)]
    /\ UNCHANGED <<server, fs>>

FontExists(r) ==
    /\ req[r].pc = "exists"
    /\ req' = [req EXCEPT ![r] = StepExists(@, fs)]
    /\ UNCHANGED <<server, fs>>

FontRead(r) ==
    /\ req[r].pc = "read"
    /\ req' = [req EXCEPT ![r] = StepRead(@, fs)]
    /\ UNCHANGED <<server, fs>>

(***************************************************************************)
(* prices (lines 95-122) and fetch (lines 75-93).  The handler is          *)
(* suspended while the upstream request is in flight; what comes back is   *)
(* the environment's choice.                                               *)
(***************************************************************************)
\* line 118: Json(chart).into_response()
JsonResponse(q, points) ==
    [q EXCEPT !.pc = "done", !.status = 200,
              !.content_type = "application/json",
              !.body = [kind |-> "json", bytes |-> <<>>, points |-> points, text |-> <<>>]]

\* line 120: (INTERNAL_SERVER_ERROR, format!("Error: {}", e))
ErrorResponse(q, e) ==
    [q EXCEPT !.pc = "done", !.status = 500,
              !.content_type = "text/plain; charset=utf-8",
              !.body = [kind |-> "text", bytes |-> <<>>, points |-> <<>>,
                        text |-> <<"Error: ", e>>]]

\* lines 85-89 and the Err arm of line 120: the status line and the headers
\* have arrived, or the request failed
StepSend(q, head) ==
    LET got == fetch_send(head)
        q1 == [q EXCEPT !.upstream = head]
    IN  IF got.ok THEN [q1 EXCEPT !.pc = "reading_body"]
        ELSE ErrorResponse(q1, got.err)

\* lines 91-121: the body has arrived, or reading it failed
StepJson(q, body) ==
    LET got == fetch_json(body)
        q1 == [q EXCEPT !.upstream.body = body]
    IN  IF got.ok THEN JsonResponse(q1, chart(got.data))
        ELSE ErrorResponse(q1, got.err)

\* lines 76-85: the request is sent and the task waits at send().await
PricesSend(r) ==
    /\ req[r].pc = "prices"
    /\ req' = [req EXCEPT ![r].pc = "awaiting"]
    /\ UNCHANGED <<server, fs>>

\* line 85 returns; lines 87-89 run and the task waits at json().await
PricesHead(r, head) ==
    /\ req[r].pc = "awaiting"
    /\ req' = [req EXCEPT ![r] = StepSend(@, head)]
    /\ UNCHANGED <<server, fs>>

\* line 91 returns; the handler runs to its response
PricesBody(r, body) ==
    /\ req[r].pc = "reading_body"
    /\ req' = [req EXCEPT ![r] = StepJson(@, body)]
    /\ UNCHANGED <<server, fs>>

(***************************************************************************)
(* index (lines 124-552): the fixed HTML document.                         *)
(***************************************************************************)
StepIndex(q) ==
    [q EXCEPT !.pc = "done", !.status = 200,
              !.content_type = "text/html; charset=utf-8",
              !.body = [kind |-> "html", bytes |-> <<>>, points |-> <<>>, text |-> <<>>]]

Index(r) ==
    /\ req[r].pc = "index"
    /\ req' = [req EXCEPT ![r] = StepIndex(@)]
    /\ UNCHANGED <<server, fs>>

(***************************************************************************)
(* The file system of the model and what other processes do to it.         *)
(***************************************************************************)
FontAbs == Cwd \o <<SrcName, FontName>>
MainRs == Cwd \o <<SrcName, <<"m", "a", "i", "n", ".", "r", "s">> >>
Gone == Cwd \o << <<"g", "o", "n", "e">> >>

NameA == <<"a", ".", "t", "t", "f">>
NameB == <<"b", ".", "w", "o", "f", "f", "2">>
NameC == <<"c", ".", "w", "o", "f", "f">>
NameL == <<"l", ".", "t", "x", "t">>

Entry(n) == Append(FontAbs, n)

FsPaths ==
    {Cwd, Cwd \o <<SrcName>>, MainRs, FontAbs,
     Entry(NameA), Entry(NameB), Entry(NameC), Entry(NameL)}

\* what a process may put at an entry of the font directory
EntryOptions(n) ==
    IF n = NameA
    THEN {NoNode, FileNode(<<1>>), FileNode(<<1, 2>>), DirNode,
          LinkNode(MainRs), LinkNode(Gone), LinkNode(Entry(NameB))}
    ELSE IF n = NameB
    THEN {NoNode, FileNode(<<3>>), LinkNode(Entry(NameA))}
    ELSE {NoNode, FileNode(<<4>>)}

EntryNames == {NameA, NameB, NameC}

EmptyFontFs ==
    [p \in FsPaths |->
        IF p = MainRs THEN FileNode(<<9, 9>>)
        ELSE IF p \in {Cwd, Cwd \o <<SrcName>>, FontAbs} THEN DirNode
        ELSE NoNode]

NoFontFs == [EmptyFontFs EXCEPT ![FontAbs] = NoNode]

FsRemoveDir ==
    /\ fs[FontAbs].kind = "dir"
    /\ fs' = NoFontFs
    /\ UNCHANGED <<server, req>>

FsMakeDir ==
    /\ fs[FontAbs].kind = "none"
    /\ fs' = EmptyFontFs
    /\ UNCHANGED <<server, req>>

FsSetEntry ==
    /\ fs[FontAbs].kind = "dir"
    /\ \E n \in EntryNames : \E node \in EntryOptions(n) :
          /\ node # fs[Entry(n)]
          /\ fs' = [fs EXCEPT ![Entry(n)] = node]
    /\ UNCHANGED <<server, req>>

(***************************************************************************)
(* SpecRace: font requests against a file system that other processes      *)
(* change between any two steps of a request.                              *)
(***************************************************************************)
Fonts(n) == PrefixFonts \o n

RacePaths ==
    {Fonts(NameA), Fonts(NameB), Fonts(NameC),
     Fonts(<<"a", ".", "t", "x", "t">>)}

InitRace ==
    /\ server = "starting"
    /\ fs = EmptyFontFs
    /\ req = [r \in 1..NRaceReq |-> Idle]

NextRace ==
    \/ Bind
    \/ \E r \in DOMAIN req : \E p \in RacePaths : Dispatch(r, "GET", p)
    \/ \E r \in DOMAIN req : FontValidate(r)
    \/ \E r \in DOMAIN req : FontCanonDir(r)
    \/ \E r \in DOMAIN req : FontCanonPath(r)
    \/ \E r \in DOMAIN req : FontPrefixCheck(r)
    \/ \E r \in DOMAIN req : FontExists(r)
    \/ \E r \in DOMAIN req : FontRead(r)
    \/ \E r \in DOMAIN req : Respond(r)
    \/ FsRemoveDir
    \/ FsMakeDir
    \/ FsSetEntry

SpecRace == InitRace /\ [][NextRace]_vars

(***************************************************************************)
(* Spec: the server with NReq requests in flight at once, each routed by   *)
(* main()'s table, against one file system and whatever upstream answers.  *)
(***************************************************************************)
\* GET /fonts/../main.rs, as sent, and with the separator percent-encoded
TraversalPath == PrefixFonts \o <<".", ".", "/", "m", "a", "i", "n", ".", "r", "s">>
EncodedTraversalPath ==
    PrefixFonts \o <<".", ".", "%", "2", "F", "m", "a", "i", "n", ".", "r", "s">>

\* /fonts/%61.ttf names a.ttf; the byte of /fonts/%ff.ttf is not UTF-8
EscapedNamePath == PrefixFonts \o <<"%", "6", "1", ".", "t", "t", "f">>
NotUtf8Path == PrefixFonts \o <<"%", "f", "f", ".", "t", "t", "f">>

ServePaths ==
    {PathIndex, PathPrices, Fonts(NameA), Fonts(NameB), Fonts(NameL),
     TraversalPath, EncodedTraversalPath, EscapedNamePath, NotUtf8Path,
     PrefixFonts}

\* 2025-01-15T00:00:00+01:00 and 2025-01-15T01:00:00+01:00
TsMidnight ==
    <<"2", "0", "2", "5", "-", "0", "1", "-", "1", "5", "T",
      "0", "0", ":", "0", "0", ":", "0", "0", "+", "0", "1", ":", "0", "0">>
TsOne ==
    <<"2", "0", "2", "5", "-", "0", "1", "-", "1", "5", "T",
      "0", "1", ":", "0", "0", ":", "0", "0", "+", "0", "1", ":", "0", "0">>

\* the two records of the spec's happy path: 0.1234 / 0.0108 and -0.05 / -0.004
RecordA ==
    JObject(JNum(F64(FALSE, <<233203, 72980, 129394>>, -56)),
            JNum(F64(FALSE, <<252078, 253335, 90596>>, -59)), JStr(TsMidnight))
RecordB ==
    JObject(JNum(F64(TRUE, <<104858, 157286, 104857>>, -57)),
            JNum(F64(TRUE, <<109052, 226492, 67108>>, -60)), JStr(TsOne))

ServeHeads == {TransportError, ResponseHead(404), ResponseHead(200)}

ServeBodies == {BodyReadError, BodyArray(<<RecordB>>)}

\* the requests: GET of every path, and POST of a path with a route, of one
\* whose segment the extractor would reject, and of one without a route
ServeRequests ==
    {[method |-> "GET", path |-> p] : p \in ServePaths}
    \cup {[method |-> "POST", path |-> p] : p \in {PathPrices, NotUtf8Path, PrefixFonts}}

ServeFs ==
    {NoFontFs, EmptyFontFs,
     [EmptyFontFs EXCEPT ![Entry(NameA)] = FileNode(<<1, 2>>)],
     [EmptyFontFs EXCEPT ![Entry(NameA)] = DirNode],
     [EmptyFontFs EXCEPT ![Entry(NameA)] = LinkNode(MainRs),
                         ![Entry(NameB)] = FileNode(<<3>>),
                         ![Entry(NameL)] = LinkNode(MainRs)],
     [EmptyFontFs EXCEPT ![Entry(NameA)] = LinkNode(Gone)]}

Init ==
    /\ server = "starting"
    /\ fs \in ServeFs
    /\ req = [r \in 1..NReq |-> Idle]

Next ==
    \/ Bind
    \/ \E r \in DOMAIN req : \E q \in ServeRequests : Dispatch(r, q.method, q.path)
    \/ \E r \in DOMAIN req : Index(r)
    \/ \E r \in DOMAIN req : PricesSend(r)
    \/ \E r \in DOMAIN req : \E h \in ServeHeads : PricesHead(r, h)
    \/ \E r \in DOMAIN req : \E b \in ServeBodies : PricesBody(r, b)
    \/ \E r \in DOMAIN req : FontValidate(r)
    \/ \E r \in DOMAIN req : FontCanonDir(r)
    \/ \E r \in DOMAIN req : FontCanonPath(r)
    \/ \E r \in DOMAIN req : FontPrefixCheck(r)
    \/ \E r \in DOMAIN req : FontExists(r)
    \/ \E r \in DOMAIN req : FontRead(r)
    \/ \E r \in DOMAIN req : Respond(r)

Spec == Init /\ [][Next]_vars

(***************************************************************************)
(* SpecPrices: GET /prices against every upstream answer of the sets       *)
(* below: failures of each kind, arrays of up to MaxRecords records, and   *)
(* single records over a wide range of timestamps and of prices.           *)
(***************************************************************************)
\* the longest upstream array drawn from SmallObjects
MaxRecords == 3
\* the low mantissa limbs 0..MaxLowLimb and LimbBase-1-MaxLowLimb..LimbBase-1
MaxLowLimb == 3

RECURSIVE SeqsUpTo(_, _)
SeqsUpTo(S, n) ==
    IF n = 0 THEN {<<>>}
    ELSE LET shorter == SeqsUpTo(S, n - 1)
         IN  shorter \cup {Append(x, e) : x \in {y \in shorter : Len(y) = n - 1}, e \in S}

Two(n) == <<Digits[(n \div 10) + 1], Digits[(n % 10) + 1]>>

Date2025 == <<"2", "0", "2", "5", "-", "0", "1", "-", "1", "5">>
DateLeap == <<"2", "0", "2", "4", "-", "0", "2", "-", "2", "9">>

OffsetTexts ==
    {<<"Z">>,
     <<"+", "0", "1", ":", "0", "0">>,
     <<"+", "0", "2", ":", "0", "0">>,
     <<"-", "0", "5", ":", "3", "0">>,
     <<"+", "2", "3", ":", "5", "9">>,
     <<"-", "2", "3", ":", "5", "9">>,
     <<MinusSign, "0", "1", ":", "0", "0">>,
     <<"+", "2", "4", ":", "0", "0">>,
     <<"+", "0", "1", ":", "6", "0">>,
     <<"+", "0", "1", "0", "0">>,
     <<>>}

FractionTexts == {<<>>, <<".", "5">>, <<".">>}

TsOf(date, h, mi, sec, frac, off) ==
    date \o <<"T">> \o Two(h) \o <<":">> \o Two(mi) \o <<":">> \o Two(sec) \o frac \o off

GeneratedTimestamps ==
    {TsOf(d, h, mi, sec, frac, off) :
        d \in {Date2025, DateLeap}, h \in 0..24, mi \in {0, 60}, sec \in {0, 60, 61},
        frac \in FractionTexts, off \in OffsetTexts}

\* timestamps that are wrong in other ways
OddTimestamps ==
    {<<>>,
     <<"n", "o", "w">>,
     Date2025,
     <<"2", "0", "2", "5", "-", "0", "2", "-", "2", "9">> \o SubSeq(TsMidnight, 11, 25),
     <<"2", "0", "2", "5", "-", "1", "3", "-", "0", "1">> \o SubSeq(TsMidnight, 11, 25),
     <<"2", "0", "2", "5", "-", "0", "4", "-", "3", "1">> \o SubSeq(TsMidnight, 11, 25),
     <<"2", "0", "2", "5", "-", "0", "1", "-", "0", "0">> \o SubSeq(TsMidnight, 11, 25),
     <<"2", "0", "2", "5", "/", "0", "1", "/", "1", "5">> \o SubSeq(TsMidnight, 11, 25),
     Date2025 \o <<"T", "7", ":", "0", "0", ":", "0", "0", "Z">>,
     Date2025 \o <<"T", "0", "7", ":", "0", "0", "Z">>,
     TsMidnight \o <<"x">>,
     <<" ">> \o TsMidnight}

Timestamps == GeneratedTimestamps \cup OddTimestamps

\* 0.1234, -0.05, 0.07, 1.1, 0.29, 0.0, -0.0, 1.0, -3.5, subnormals, the
\* smallest normal, values whose product overflows, the largest values
NamedPrices ==
    {F64(FALSE, <<233203, 72980, 129394>>, -56),
     F64(TRUE, <<104858, 157286, 104857>>, -57),
     F64(FALSE, <<20972, 83886, 73400>>, -56),
     F64(FALSE, <<104858, 157286, 72089>>, -52),
     F64(FALSE, <<115343, 199229, 76021>>, -54),
     F64(FALSE, <<>>, -1074),
     F64(TRUE, <<>>, -1074),
     F64(FALSE, <<0, 0, 65536>>, -52),
     F64(TRUE, <<0, 0, 114688>>, -51),
     F64(FALSE, <<1>>, -1074),
     F64(FALSE, <<234488, 255562, 647>>, -1074),
     F64(TRUE, <<178258, 188743, 1310>>, -1074),
     F64(FALSE, <<0, 0, 65536>>, -1074),
     F64(FALSE, <<29747, 249643, 116657>>, 967),
     F64(TRUE, <<29747, 249643, 116657>>, 967),
     F64(FALSE, <<136314, 20971, 83886>>, 965),
     F64(FALSE, <<136315, 20971, 83886>>, 965),
     F64(FALSE, <<262143, 262143, 131071>>, 971),
     F64(FALSE, <<136315, 20971, 83886>>, 0),
     F64(FALSE, <<136314, 20971, 83886>>, 0),
     F64(FALSE, <<223473, 90680, 85899>>, -69)}

EdgeLimbs == (0..MaxLowLimb) \cup ((LimbBase - 1 - MaxLowLimb)..(LimbBase - 1))

GeneratedPrices ==
    {F64(neg, <<c, b, a>>, e) :
        neg \in BOOLEAN, c \in EdgeLimbs, b \in {0, LimbBase - 1},
        a \in {65536, 87960, 131071}, e \in {MinExp, -56, 0, 965, MaxExp}}
    \cup {F64(neg, <<c, b, 0>>, MinExp) :
        neg \in BOOLEAN, c \in EdgeLimbs, b \in {0, 1, LimbBase - 1}}

PriceValues == NamedPrices \cup GeneratedPrices

\* RecordA again with another price, a record whose time is no timestamp,
\* and records serde refuses: a null price, a missing time, a number as time
RecordA2 == JObject(RecordB.NOK_per_kWh, RecordA.EUR_per_kWh, JStr(TsMidnight))
RecordBadTime == JObject(RecordA.NOK_per_kWh, RecordA.EUR_per_kWh, JStr(<<"n", "o", "w">>))
RecordNullPrice == JObject(JNull, RecordA.EUR_per_kWh, JStr(TsMidnight))
RecordNoTime == JObject(RecordA.NOK_per_kWh, RecordA.EUR_per_kWh, JAbsent)
RecordNumberTime == JObject(RecordA.NOK_per_kWh, RecordA.EUR_per_kWh, RecordA.EUR_per_kWh)
RecordTextPrice == JObject(RecordA.NOK_per_kWh, JStr(<<"1">>), JStr(TsOne))

SmallObjects == {RecordA, RecordB, RecordA2, RecordBadTime, RecordNullPrice}

Statuses == {200, 201, 204, 299, 300, 304, 400, 404, 500, 503}

FewBodies ==
    {BodyMalformed, BodyOther, BodyReadError,
     BodyArray(<<>>), BodyArray(<<RecordA, RecordB>>),
     BodyArray(<<RecordNoTime>>), BodyArray(<<RecordA, RecordNumberTime>>),
     BodyArray(<<RecordTextPrice, RecordA>>)}

PriceHeads == {TransportError} \cup {ResponseHead(st) : st \in Statuses}

PriceBodies ==
    FewBodies
    \cup {BodyArray(items) : items \in SeqsUpTo(SmallObjects, MaxRecords)}
    \cup {BodyArray(<<JObject(JNum(x), RecordA.EUR_per_kWh, JStr(TsOne))>>) :
            x \in PriceValues}
    \cup {BodyArray(<<JObject(RecordA.NOK_per_kWh, RecordA.EUR_per_kWh, JStr(ts))>>) :
            ts \in Timestamps}

InitPrices ==
    /\ server = "starting"
    /\ fs = EmptyFontFs
    /\ req = [r \in {1} |-> Idle]

NextPrices ==
    \/ Bind
    \/ \E r \in DOMAIN req : Dispatch(r, "GET", PathPrices)
    \/ \E r \in DOMAIN req : PricesSend(r)
    \/ \E r \in DOMAIN req : \E h \in PriceHeads : PricesHead(r, h)
    \/ \E r \in DOMAIN req : \E b \in PriceBodies : PricesBody(r, b)
    \/ \E r \in DOMAIN req : Respond(r)

SpecPrices == InitPrices /\ [][NextPrices]_vars

(***************************************************************************)
(* SpecValidate: serve_font called with every short filename over the      *)
(* characters its checks look at, against a file system without the font   *)
(* directory, with it, and with a file of exactly that name in it.         *)
(***************************************************************************)
\* the longest filename drawn from NameAlphabet
MaxNameLen == 5

NameAlphabet == {".", "/", "\\", "t", "f"}

NamedExamples ==
    {NameA, NameB, NameC,
     <<".", ".", "/", "m", "a", "i", "n", ".", "r", "s">>,
     <<"a", ".", "w", "o", "f", "f", "2", "x">>,
     <<"a", ".", "w", "o", "f">>,
     <<".", ".", "\\", "a", ".", "w", "o", "f", "f">>,
     <<"a", ".", ".", "w", "o", "f", "f", "2">>,
     <<"w", "o", "f", "f", "2">>,
     <<"A", ".", "T", "T", "F">>}

AllNames ==
    NamedExamples \cup UNION {[1..n -> NameAlphabet] : n \in 0..MaxNameLen}

\* a file system in which a regular file is named exactly `name`
FsWithFile(name) ==
    [p \in FsPaths \cup {Entry(name)} |->
        IF p = Entry(name) THEN FileNode(<<5>>) ELSE EmptyFontFs[p]]

InitValidate ==
    /\ server = "running"
    /\ \E name \in AllNames :
          /\ fs \in {NoFontFs, EmptyFontFs, FsWithFile(name)}
          /\ req = [r \in {1} |-> [Idle EXCEPT !.pc = "serve_font",
                                                !.method = "GET",
                                                !.path = Fonts(name),
                                                !.filename = name]]

NextValidate ==
    \/ \E r \in DOMAIN req : FontValidate(r)
    \/ \E r \in DOMAIN req : FontCanonDir(r)
    \/ \E r \in DOMAIN req : FontCanonPath(r)
    \/ \E r \in DOMAIN req : FontPrefixCheck(r)
    \/ \E r \in DOMAIN req : FontExists(r)
    \/ \E r \in DOMAIN req : FontRead(r)

SpecValidate == InitValidate /\ [][NextValidate]_vars

(***************************************************************************)
(* What the claims say of a filename, stated character by character.       *)
(***************************************************************************)
HasDotDot(n) == \E i \in 1..(Len(n) - 1) : n[i] = "." /\ n[i + 1] = "."
HasSeparator(n) == \E i \in 1..Len(n) : n[i] \in {"/", "\\"}

Suffix(n, k) == IF Len(n) < k THEN <<>> ELSE [i \in 1..k |-> n[Len(n) - k + i]]

FontSuffix(n) ==
    IF Suffix(n, 6) = <<".", "w", "o", "f", "f", "2">> THEN "woff2"
    ELSE IF Suffix(n, 5) = <<".", "w", "o", "f", "f">> THEN "woff"
    ELSE IF Suffix(n, 4) = <<".", "t", "t", "f">> THEN "ttf"
    ELSE "other"

BadName(n) == HasDotDot(n) \/ HasSeparator(n) \/ FontSuffix(n) = "other"

Started(q) == q.pc \notin {"idle", "serve_font"}

\* C1: a font request whose filename contains "..", "/" or "\", or does not
\* end in .woff2, .woff or .ttf, is answered 400 by the validation step, in
\* every state of the file system, and makes no file-system call.
C1_BadNameIs400 ==
    \A r \in DOMAIN req :
        (BadName(req[r].filename) /\ Started(req[r]))
            => /\ req[r].pc = "done"
               /\ req[r].status = 400
               /\ req[r].fsops = <<>>
               /\ req[r].body = NoBody

\* a name with a backslash and a font extension was refused although a file
\* of exactly that name is in the font directory
C1_Witness ==
    \E r \in DOMAIN req :
        /\ req[r].pc = "done"
        /\ req[r].status = 400
        /\ Contains(req[r].filename, Backslash)
        /\ FontSuffix(req[r].filename) = "ttf"
        /\ Lookup(fs, Entry(req[r].filename)).kind = "file"

\* C2 as stated: GET /fonts/../main.rs, sent with that literal path and
\* dispatched through the route table, is answered with status 400.
C2_LiteralTraversalIs400 ==
    \A r \in DOMAIN req :
        (req[r].path = TraversalPath /\ req[r].pc = "done") => req[r].status = 400

\* C2 as amended: the literal path /fonts/../main.rs has three segments, so
\* it matches no route: the router's fallback answers 404 and serve_font is
\* never called (no filename is extracted, no file-system call is made).
\* The same traversal with its separator percent-encoded is one segment,
\* reaches serve_font as the filename "../main.rs" and is answered 400.
C2_LiteralTraversalIs404 ==
    \A r \in DOMAIN req :
        /\ req[r].path = TraversalPath
              => /\ req[r].pc = "done"
                 /\ req[r].status = 404
                 /\ req[r].filename = <<>>
                 /\ req[r].fsops = <<>>
        /\ (req[r].path = EncodedTraversalPath /\ Started(req[r]))
              => /\ req[r].pc = "done"
                 /\ req[r].status = 400
                 /\ req[r].fsops = <<>>

\* both forms of the traversal have been answered, while main.rs exists
C2_Witness ==
    /\ Lookup(fs, MainRs).kind = "file"
    /\ \E r1, r2 \in DOMAIN req :
          /\ req[r1].path = TraversalPath /\ req[r1].status = 404
          /\ req[r2].path = EncodedTraversalPath /\ req[r2].status = 400

\* the entry base/filename is a symbolic link whose target is not below the
\* font directory
LinkOutside(f, n) ==
    LET node == Lookup(f, Entry(n))
    IN  /\ node.kind = "link"
        /\ \/ Len(node.target) <= Len(FontAbs)
           \/ \E i \in 1..Len(FontAbs) : node.target[i] # FontAbs[i]

ToServeFont(q) == q.pc # "idle" /\ StartsWith(q.path, PrefixFonts) /\ q.filename # <<>>

\* C3 as stated: a request for a symbolic link of the font directory whose
\* target lies outside it is answered 403, whatever the link's name and
\* whether or not its target exists.
C3_OutsideLinkIs403 ==
    \A r \in DOMAIN req :
        (ToServeFont(req[r]) /\ req[r].pc = "done" /\ LinkOutside(fs, req[r].filename))
            => req[r].status = 403

\* C3 as amended: with the link in place throughout the request, the answer
\* is 403 when the link's name passes the filename validation and its
\* target exists; a link whose name fails the validation is answered 400,
\* and a link whose target does not exist is answered 404.  In no case is
\* the target read.
C3_OutsideLinkIs403IfValidAndPresent ==
    \A r \in DOMAIN req :
        (ToServeFont(req[r]) /\ req[r].pc = "done" /\ LinkOutside(fs, req[r].filename))
            => /\ req[r].status =
                    IF BadName(req[r].filename) THEN 400
                    ELSE IF Lookup(fs, Lookup(fs, Entry(req[r].filename)).target).kind = "none"
                         THEN 404
                    ELSE 403
               /\ req[r].body = NoBody
               /\ \A i \in 1..Len(req[r].fsops) : req[r].fsops[i] # "read"

\* a link with a font name to the existing src/main.rs was refused with 403
C3_Witness ==
    \E r \in DOMAIN req :
        /\ req[r].pc = "done"
        /\ req[r].status = 403
        /\ req[r].filename = NameA
        /\ fs[Entry(NameA)] = LinkNode(MainRs)
        /\ fs[MainRs].kind = "file"

\* Where base/n leads in file system f, read off the nodes of the model's
\* font directory: the entry itself, the target of a link, the target of a
\* link to a link; <<>> when it leads nowhere (nothing there, a dangling
\* link, a cycle of links, no font directory).
Final(f, n) ==
    LET node == f[Entry(n)]
        second == f[node.target]
    IN  IF f[FontAbs].kind # "dir" THEN <<>>
        ELSE IF node.kind \in {"file", "dir"} THEN Entry(n)
        ELSE IF node.kind # "link" THEN <<>>
        ELSE IF node.target = MainRs THEN MainRs
        ELSE IF node.target \notin {Entry(m) : m \in EntryNames} THEN <<>>
        ELSE IF second.kind \in {"file", "dir"} THEN node.target
        ELSE IF second.kind = "link" /\ second.target = MainRs THEN MainRs
        ELSE <<>>

Expect(q2, pc, status) ==
    /\ q2.pc = pc
    /\ q2.status = status
    /\ status # 200 => (q2.body = NoBody /\ q2.content_type = "" /\ q2.cache_control = "")

\* one step of a font request from q to q2 in file system f
C4_Step(q, q2, f) ==
    LET n == q.filename
    IN  CASE q.pc = "serve_font" ->
               IF BadName(n) THEN Expect(q2, "done", 400)
               ELSE Expect(q2, "canon_dir", 0)
          [] q.pc = "canon_dir" ->
               IF f[FontAbs].kind = "dir"
               THEN Expect(q2, "canon_path", 0) /\ q2.canonical_font_dir = FontAbs
               ELSE Expect(q2, "done", 500)
          [] q.pc = "canon_path" ->
               IF Final(f, n) = <<>> THEN Expect(q2, "done", 404)
               ELSE Expect(q2, "prefix_check", 0) /\ q2.canonical_font_path = Final(f, n)
          [] q.pc = "prefix_check" ->
               IF q.canonical_font_path \in {Entry(m) : m \in EntryNames}
               THEN Expect(q2, "exists", 0)
               ELSE Expect(q2, "done", 403)
          [] q.pc = "exists" ->
               IF Final(f, n) = <<>> THEN Expect(q2, "done", 404)
               ELSE Expect(q2, "read", 0)
          [] q.pc = "read" ->
               IF Final(f, n) # <<>> /\ f[Final(f, n)].kind = "file"
               THEN Expect(q2, "done", 200)
               ELSE Expect(q2, "done", 500)
          [] OTHER -> TRUE

PassedPrefixCheck(q) == \E i \in 1..Len(q.fsops) : q.fsops[i] = "exists"

\* C4 as stated, its last part: once both canonicalizations have succeeded
\* and the prefix check has passed, the only outcomes are 200 and 500, also
\* when the file system changes between the steps of the request.
C4_After403CheckOnly200Or500 ==
    \A r \in DOMAIN req :
        (req[r].pc = "done" /\ PassedPrefixCheck(req[r])) => req[r].status \in {200, 500}

\* C4 as amended: a font request goes through validate -> canonicalize base
\* -> canonicalize file -> prefix check -> existence check -> read, each
\* step deciding on the file system as it is when the step runs, and its
\* status is that of the first failing step (400, 500, 404, 403, 404, 500)
\* or 200 when none fails.  404 is returned when canonicalizing
\* base/filename fails and also when, after a passed prefix check, the
\* existence check of line 53 finds base/filename gone; after that check
\* the only outcomes are 200 with the bytes and 500.
C4_StateMachine ==
    [][\A r \in DOMAIN req :
          (req'[r] # req[r] /\ ToServeFont(req[r]) /\ req[r].pc # "done")
              => C4_Step(req[r], req'[r], fs)]_vars

\* a request passed the prefix check and was then answered 404, because the
\* file was removed before the existence check
C4_Witness ==
    \E r \in DOMAIN req :
        /\ req[r].pc = "done"
        /\ req[r].status = 404
        /\ req[r].fsops = <<"canonicalize_dir", "canonicalize_path", "exists">>
        /\ req[r].canonical_font_path = Entry(req[r].filename)

\* C5: every 200 response of a font request carries Cache-Control
\* "public, max-age=31536000", the Content-Type font/woff2, font/woff or
\* font/ttf of the filename's suffix (never application/octet-stream), and
\* as body the contents that base/filename has when it is read.
C5_FontResponse ==
    [][\A r \in DOMAIN req :
          (ToServeFont(req[r]) /\ req[r].pc # "done"
           /\ req'[r].pc = "done" /\ req'[r].status = 200)
              => /\ req'[r].cache_control = "public, max-age=31536000"
                 /\ req'[r].content_type =
                        (CASE FontSuffix(req[r].filename) = "woff2" -> "font/woff2"
                           [] FontSuffix(req[r].filename) = "woff" -> "font/woff"
                           [] FontSuffix(req[r].filename) = "ttf" -> "font/ttf"
                           [] OTHER -> "none")
                 /\ Final(fs, req[r].filename) # <<>>
                 /\ fs[Final(fs, req[r].filename)].kind = "file"
                 /\ req'[r].body = BytesBody(fs[Final(fs, req[r].filename)].data)]_vars

\* a .woff2 file was served with its bytes
C5_Witness ==
    \E r \in DOMAIN req :
        /\ req[r].pc = "done"
        /\ req[r].status = 200
        /\ req[r].filename = NameB
        /\ req[r].content_type = "font/woff2"
        /\ req[r].body.bytes = <<3>>

(***************************************************************************)
(* GET /prices: what the claims say, stated on the upstream answer that    *)
(* the request received.                                                   *)
(***************************************************************************)
ToPrices(q) == q.path = PathPrices /\ q.pc = "done"

Items(q) == q.upstream.body.items

\* the upstream fetch succeeded: a response, a 2xx status, a JSON array of
\* objects with two numbers and a string
UpstreamOk(a) ==
    /\ a.kind = "response"
    /\ a.status \in 200..299
    /\ a.body.kind = "array"
    /\ \A i \in 1..Len(a.body.items) :
          /\ a.body.items[i].NOK_per_kWh.t = "num"
          /\ a.body.items[i].EUR_per_kWh.t = "num"
          /\ a.body.items[i].time_start.t = "str"

\* C6: GET /prices responds 200 with a JSON array exactly when the upstream
\* fetch succeeds (the empty array included, which yields []); on every
\* upstream failure it responds 500 with a plain-text body starting with
\* "Error: ".  The handler produces no other status.  An answer with a 2xx
\* status is not refused on its status: its body is read.
C6_PricesStatus ==
    \A r \in DOMAIN req :
        ToPrices(req[r]) =>
          /\ (req[r].upstream.kind = "response" /\ req[r].upstream.status \in 200..299)
                => req[r].upstream.body.kind # "pending"
          /\ IF UpstreamOk(req[r].upstream)
              THEN /\ req[r].status = 200
                   /\ req[r].content_type = "application/json"
                   /\ req[r].body.kind = "json"
                   /\ (Items(req[r]) = <<>> => req[r].body.points = <<>>)
              ELSE /\ req[r].status = 500
                   /\ req[r].content_type = "text/plain; charset=utf-8"
                   /\ req[r].body.kind = "text"
                   /\ req[r].body.text # <<>>
                   /\ req[r].body.text[1] = "Error: "

\* an upstream 404 was turned into a 500 with an error text
C6_Witness ==
    \E r \in DOMAIN req :
        /\ ToPrices(req[r])
        /\ req[r].upstream.kind = "response"
        /\ req[r].upstream.status = 404
        /\ req[r].status = 500
        /\ req[r].body.text[1] = "Error: "

\* C7: the emitted array has the length of the upstream array and element
\* i carries time, price_nok and price_eur of upstream record i: nothing is
\* dropped, duplicated, reordered or merged, equal timestamps included.
C7_PointwiseMap ==
    \A r \in DOMAIN req :
        (ToPrices(req[r]) /\ req[r].status = 200) =>
            /\ Len(req[r].body.points) = Len(Items(req[r]))
            /\ \A i \in 1..Len(Items(req[r])) :
                  /\ i <= Len(req[r].body.points)
                  /\ req[r].body.points[i].time = Items(req[r])[i].time_start.str
                  /\ req[r].body.points[i].price_nok = Items(req[r])[i].NOK_per_kWh.num
                  /\ req[r].body.points[i].price_eur = Items(req[r])[i].EUR_per_kWh.num

\* three records, out of time order and two of them with the same
\* timestamp, were emitted as three points
C7_Witness ==
    \E r \in DOMAIN req :
        /\ ToPrices(req[r])
        /\ req[r].status = 200
        /\ Items(req[r]) = <<RecordB, RecordA, RecordA2>>
        /\ Len(req[r].body.points) = 3
        /\ req[r].body.points[2].time = req[r].body.points[3].time

\* the value of a digit character, as a table
DigitOf ==
    "0" :> 0 @@ "1" :> 1 @@ "2" :> 2 @@ "3" :> 3 @@ "4" :> 4 @@
    "5" :> 5 @@ "6" :> 6 @@ "7" :> 7 @@ "8" :> 8 @@ "9" :> 9

AreDigits(s, at) == \A i \in at : i <= Len(s) /\ s[i] \in DOMAIN DigitOf

Val2(s, i) == 10 * DigitOf[s[i]] + DigitOf[s[i + 1]]

FractionOk(f) == f = <<>> \/ (Len(f) >= 2 /\ f[1] = "." /\ AreDigits(f, 2..Len(f)))

ZoneOk(z) ==
    \/ z \in {<<"Z">>, <<"z">>}
    \/ /\ Len(z) = 6
       /\ z[1] \in {"+", "-"}
       /\ z[4] = ":"
       /\ AreDigits(z, {2, 3, 5, 6})
       /\ Val2(z, 2) <= 23
       /\ Val2(z, 5) <= 59

\* RFC 3339 date-time: YYYY-MM-DDTHH:MM:SS, an optional fraction, and Z or a
\* numeric offset; a real calendar date and clock time (second 60 allowed)
IsRfc3339(s) ==
    /\ Len(s) >= 20
    /\ AreDigits(s, {1, 2, 3, 4, 6, 7, 9, 10, 12, 13, 15, 16, 18, 19})
    /\ s[5] = "-" /\ s[8] = "-" /\ s[14] = ":" /\ s[17] = ":"
    /\ s[11] \in {"T", "t", " "}
    /\ LET y == 100 * Val2(s, 1) + Val2(s, 3)
           mo == Val2(s, 6)
           d == Val2(s, 9)
       IN  /\ mo \in 1..12
           /\ d \in 1..31
           /\ mo \in {4, 6, 9, 11} => d <= 30
           /\ mo = 2 => d <= 29
           /\ (mo = 2 /\ d = 29) => ((y % 4 = 0 /\ y % 100 # 0) \/ y % 400 = 0)
    /\ Val2(s, 12) <= 23
    /\ Val2(s, 15) <= 59
    /\ Val2(s, 18) <= 60
    /\ \E k \in 20..(Len(s) + 1) :
          /\ FractionOk(SubSeq(s, 20, k - 1))
          /\ ZoneOk(SubSeq(s, k, Len(s)))

\* C8 as stated: for every record, the emitted hour is the hour written in
\* the timestamp (in its own offset, 0..23) when time_start is an RFC 3339
\* date-time, and 0 when it is not; in both cases the record is emitted
\* with its other fields unchanged and the request succeeds.
C8_Hour ==
    \A r \in DOMAIN req :
        (ToPrices(req[r]) /\ UpstreamOk(req[r].upstream)) =>
            /\ req[r].status = 200
            /\ Len(req[r].body.points) = Len(Items(req[r]))
            /\ \A i \in 1..Len(req[r].body.points) :
                  LET ts == Items(req[r])[i].time_start.str
                      pt == req[r].body.points[i]
                  IN  /\ pt.hour = IF IsRfc3339(ts) THEN Val2(ts, 12) ELSE 0
                      /\ pt.hour \in 0..23
                      /\ pt.time = ts
                      /\ pt.price_nok = Items(req[r])[i].NOK_per_kWh.num
                      /\ pt.price_eur = Items(req[r])[i].EUR_per_kWh.num

\* ts with a U+2212 MINUS SIGN as the sign of its offset written as "-"
AsciiSign(ts) ==
    IF Len(ts) >= 6 /\ ts[Len(ts) - 5] = MinusSign
    THEN [ts EXCEPT ![Len(ts) - 5] = "-"]
    ELSE ts

\* what the parser takes: an RFC 3339 date-time, also with the sign of the
\* offset written as U+2212
IsAccepted(ts) == IsRfc3339(AsciiSign(ts))

\* C8 as amended: for every record, the emitted hour is the hour written in
\* the timestamp (in its own offset, 0..23) when time_start is an RFC 3339
\* date-time or is one but for U+2212 MINUS SIGN as the sign of its offset,
\* and 0 for every other text; in both cases the record is emitted with its
\* other fields unchanged and the request succeeds.
C8_HourOfAcceptedText ==
    \A r \in DOMAIN req :
        (ToPrices(req[r]) /\ UpstreamOk(req[r].upstream)) =>
            /\ req[r].status = 200
            /\ Len(req[r].body.points) = Len(Items(req[r]))
            /\ \A i \in 1..Len(req[r].body.points) :
                  LET ts == Items(req[r])[i].time_start.str
                      pt == req[r].body.points[i]
                  IN  /\ pt.hour = IF IsAccepted(ts) THEN Val2(ts, 12) ELSE 0
                      /\ pt.hour \in 0..23
                      /\ pt.time = ts
                      /\ pt.price_nok = Items(req[r])[i].NOK_per_kWh.num
                      /\ pt.price_eur = Items(req[r])[i].EUR_per_kWh.num

\* one response holds a record whose time is no timestamp, emitted with hour
\* 0, next to the record of 01:00:00+01:00 (midnight UTC), emitted with hour 1
C8_Witness ==
    \E r \in DOMAIN req :
        /\ ToPrices(req[r])
        /\ req[r].status = 200
        /\ Items(req[r]) = <<RecordBadTime, RecordB>>
        /\ req[r].body.points[1].hour = 0
        /\ req[r].body.points[1].time = <<"n", "o", "w">>
        /\ req[r].body.points[2].hour = 1

\* a record whose time is 2025-01-15T07:00:00 with the offset 01:00 behind
\* UTC and U+2212 as its sign was emitted with hour 7
C8_WitnessMinusSign ==
    \E r \in DOMAIN req :
        /\ ToPrices(req[r])
        /\ req[r].status = 200
        /\ Len(req[r].body.points) = 1
        /\ req[r].body.points[1].time =
              TsOf(Date2025, 7, 0, 0, <<>>, <<MinusSign, "0", "1", ":", "0", "0">>)
        /\ ~IsRfc3339(req[r].body.points[1].time)
        /\ req[r].body.points[1].hour = 7

(***************************************************************************)
(* Natural numbers as limbs, for stating what the product must be.         *)
(***************************************************************************)
RECURSIVE BigCmpFrom(_, _, _)
BigCmpFrom(x, y, i) ==
    IF i = 0 THEN 0
    ELSE IF x[i] < y[i] THEN -1
    ELSE IF x[i] > y[i] THEN 1
    ELSE BigCmpFrom(x, y, i - 1)

BigCmp(x, y) ==
    LET a == BigTrim(x)
        b == BigTrim(y)
    IN  IF Len(a) < Len(b) THEN -1
        ELSE IF Len(a) > Len(b) THEN 1
        ELSE BigCmpFrom(a, b, Len(a))

\* x - y for x >= y
RECURSIVE BigSubBorrow(_, _, _)
BigSubBorrow(x, y, borrow) ==
    IF x = <<>> THEN <<>>
    ELSE LET yi == IF y = <<>> THEN 0 ELSE Head(y)
             t == Head(x) - yi - borrow
         IN  <<IF t < 0 THEN t + LimbBase ELSE t>>
                 \o BigSubBorrow(Tail(x), IF y = <<>> THEN <<>> ELSE Tail(y),
                                 IF t < 0 THEN 1 ELSE 0)

BigAbsDiff(x, y) ==
    IF BigCmp(x, y) >= 0 THEN BigTrim(BigSubBorrow(BigTrim(x), BigTrim(y), 0))
    ELSE BigTrim(BigSubBorrow(BigTrim(y), BigTrim(x), 0))

BigShl(x, k) == BigTrim(BigMulCarry(x, Pow2(k), 0))

\* 2^54 - 1: a product of at least (2^54 - 1) * 2^970 rounds to infinity
BigOverflowMant == <<262143, 262143, 262143>>

\* r is the binary64 value nearest to 100 * x (ties to the even mantissa),
\* with the sign of x: 100 * x = p * 2^ex exactly, with p = 25 * m.
IsProductBy100(x, r) ==
    LET p == BigMulCarry(x.m, 25, 0)
        ex == x.e + 2
    IN  /\ r.neg = x.neg
        /\ IF r.cls = "inf"
           THEN IF ex >= 970 THEN BigCmp(BigShl(p, ex - 970), BigOverflowMant) >= 0
                ELSE IF 970 - ex <= 5
                     THEN BigCmp(p, BigShl(BigOverflowMant, 970 - ex)) >= 0
                ELSE FALSE
           ELSE /\ r.cls = "finite"
                /\ r.e >= MinExp /\ r.e <= MaxExp
                /\ r.e - ex \in -2..6
                /\ BigCmp(r.m, BigTwo53) < 0
                /\ r.e = MinExp \/ BigCmp(r.m, BigTwo52) >= 0
                /\ LET unit == IF ex < r.e - 2 THEN ex ELSE r.e - 2
                       a == BigShl(r.m, r.e - unit)
                       b == BigShl(p, ex - unit)
                       half == <<Pow2(r.e - 1 - unit)>>
                       err == BigAbsDiff(a, b)
                   IN  /\ BigCmp(err, half) <= 0
                       /\ BigCmp(err, half) = 0 => ~BigIsOdd(r.m)
                       /\ (r.m = BigTwo52 /\ r.e > MinExp /\ BigCmp(a, b) > 0)
                              => BigCmp(BigShl(err, 1), half) <= 0
                       \* below the overflow threshold
                       /\ r.e = MaxExp =>
                              (ex >= 970 => BigCmp(BigShl(p, ex - 970), BigOverflowMant) < 0)

\* C9: for every upstream record the emitted price is nok_per_kwh * 100 as
\* IEEE 754 double multiplication gives it (the nearest double to the exact
\* product), neither rounded further nor clamped: the sign is kept, so a
\* negative upstream price yields a negative emitted price.
C9_Price ==
    \A r \in DOMAIN req :
        (ToPrices(req[r]) /\ UpstreamOk(req[r].upstream)) =>
            /\ Len(req[r].body.points) = Len(Items(req[r]))
            /\ \A i \in 1..Len(req[r].body.points) :
                  IsProductBy100(Items(req[r])[i].NOK_per_kWh.num,
                                 req[r].body.points[i].price)

\* -0.05 NOK/kWh was emitted as -5.0
C9_Witness ==
    \E r \in DOMAIN req :
        /\ ToPrices(req[r])
        /\ req[r].status = 200
        /\ Len(req[r].body.points) = 1
        /\ req[r].body.points[1].price_nok = F64(TRUE, <<104858, 157286, 104857>>, -57)
        /\ req[r].body.points[1].price = F64(TRUE, <<0, 0, 81920>>, -50)

(***************************************************************************)
(* Requests in flight together.                                            *)
(***************************************************************************)
\* serve_font run from where q stands to its response, against file system f
FinishFont(q, f) ==
    LET a == IF q.pc = "serve_font" THEN StepValidate(q) ELSE q
        b == IF a.pc = "canon_dir" THEN StepCanonDir(a, f) ELSE a
        c == IF b.pc = "canon_path" THEN StepCanonPath(b, f) ELSE b
        d == IF c.pc = "prefix_check" THEN StepPrefixCheck(c) ELSE c
        e == IF d.pc = "exists" THEN StepExists(d, f) ELSE d
    IN  IF e.pc = "read" THEN StepRead(e, f) ELSE e

\* any handler run from where q stands, with the upstream answering with
\* `head` and then `body`
Finish(q, f, head, body) ==
    IF q.pc = "done" THEN q
    ELSE IF q.pc = "index" THEN StepIndex(q)
    ELSE IF q.pc \in {"prices", "awaiting"}
         THEN LET sent == StepSend(q, head)
              IN  IF sent.pc = "reading_body" THEN StepJson(sent, body) ELSE sent
    ELSE IF q.pc = "reading_body" THEN StepJson(q, body)
    ELSE FinishFont(q, f)

\* the response to the request when it is the only one the server handles
Alone(method, path, f, head, body) == Finish(Accept(method, path), f, head, body)

\* what the upstream can still send request q, or what it has sent
HeadsFor(q) ==
    IF q.pc \in {"prices", "awaiting"} THEN ServeHeads
    ELSE {[q.upstream EXCEPT !.body = BodyPending]}

BodiesFor(q) ==
    IF q.pc \in {"prices", "awaiting", "reading_body"} THEN ServeBodies
    ELSE {q.upstream.body}

AsAlone(q, f) ==
    q.pc # "idle" =>
        \A h \in HeadsFor(q) : \A b \in BodiesFor(q) :
            Finish(q, f, h, b) = Alone(q.method, q.path, f, h, b)

C10_Step ==
    /\ server = "running" => server' = "running"
    /\ \A r \in DOMAIN req :
          req'[r] # req[r] =>
              /\ AsAlone(req'[r], fs')
              /\ \A s \in DOMAIN req \ {r} : req'[s] = req[s]

\* C10: whatever the interleaving of the requests in flight, every step
\* leaves each request on the way to (or holding) exactly the response it
\* gets when handled alone against the same file system and upstream answer;
\* a step of one request, an error response included, changes nothing of
\* any other request; and a server that is running stays running.
C10_Isolation == [][C10_Step]_vars

\* two requests answered side by side: /prices with 500 after a failed
\* upstream call, and a font with 200 and its bytes
C10_Witness ==
    \E r \in DOMAIN req : \E s \in DOMAIN req \ {r} :
        /\ server = "running"
        /\ req[r].pc = "done" /\ req[r].path = PathPrices
        /\ req[r].status = 500 /\ req[r].upstream = TransportError
        /\ req[s].pc = "done" /\ Route(req[s].path).handler = "serve_font"
        /\ req[s].status = 200 /\ req[s].body.kind = "bytes"

(***************************************************************************)
(* The read of line 54 against the path that passed the check of line 49.  *)
(***************************************************************************)
\* the file that tokio::fs::read(&font_path) opens in file system f
FileRead(q, f) == Canonicalize(f, font_path(q.filename))

\* C11: every 200 response of a font request contains the bytes of a file
\* that lies inside the canonical font directory at the moment it is read,
\* also when another process changes the file system between the prefix
\* check and the read: the file that is read is the one whose canonical
\* path passed the prefix check.
C11_ReadIsCheckedFile ==
    [][\A r \in DOMAIN req :
          (ToServeFont(req[r]) /\ req[r].pc = "read"
           /\ req'[r].pc = "done" /\ req'[r].status = 200)
          => /\ FileRead(req[r], fs).ok
             /\ PathStartsWith(FileRead(req[r], fs).path, req[r].canonical_font_dir)
             /\ FileRead(req[r], fs).path = req[r].canonical_font_path
             /\ req'[r].body.bytes = Lookup(fs, req[r].canonical_font_path).data]_vars

=============================================================================
